---- MODULE Spec2Model ----
(***************************************************************************)
(* Model of the bsp-rag document store (src/lib/services/documentStore.ts) *)
(* with its PDF and embedding services: the in-memory stores, the durable  *)
(* localStorage snapshot, the processDocuments workflow with one step per  *)
(* suspension point, and the fused lexical/semantic search.                *)
(***************************************************************************)
EXTENDS Integers, Sequences, FiniteSets, TLC

VARIABLES
  documentsStore,   \* writable<IssuanceDocument[]>
  chunksStore,      \* writable<DocumentChunk[]>
  isLoadingStore,   \* writable(false)
  progressStore,    \* writable({ total, processed })
  browser,          \* $app/environment browser flag
  localStorage,     \* the two durable entries rag_documents / rag_chunks
  pd,               \* frames of the processDocuments invocations
  fd,               \* position of the fetchDocuments invocation
  ss,               \* frame of the semanticSearch invocation
  returned,         \* history: how each invocation's last call ended
  runs,             \* number of processDocuments invocations that found work
  concurrency,      \* how many processDocuments invocations may be in flight
  docBatchSize,     \* the batchSize of documentStore.ts:74 in force
  page,             \* routes/documents/+page.svelte: the component instance
  written,          \* history: chunks appended to rag_chunks since it was last absent
  lastWrite         \* history: what the last complete snapshot write was given

vars == <<documentsStore, chunksStore, isLoadingStore, progressStore, browser,
          localStorage, pd, fd, ss, returned, runs, concurrency,
          docBatchSize, page,
          written, lastWrite>>

(***************************************************************************)
(* Bounds of the model.  The three batch sizes are the program's constants *)
(* scaled down so that several batches, several sub-batches and eviction   *)
(* happen on a corpus of three documents.                                  *)
(***************************************************************************)
\* documentStore.ts:74 batchSize = 5 (scaled)
batchSize == 1
\* embeddingService.ts:33 batchSize = 20 (scaled)
embedBatchSize == 2
\* documentStore.ts:142 maxStoredChunks = 1000 (scaled)
maxStoredChunks == 3
\* processDocuments invocations that find work, per behaviour
MaxRuns == 2
\* largest limit passed to semanticSearch
MaxLimit == 3

Min(a, b) == IF a < b THEN a ELSE b
Max(a, b) == IF a > b THEN a ELSE b

(***************************************************************************)
(* JavaScript values.  An optional property is None (undefined) or         *)
(* Some(v); null is the string NULL.                                       *)
(***************************************************************************)
None == <<>>
Some(v) == <<v>>
NULL == "null"

\* Array.prototype.slice(start, end), 0-based, end exclusive, both >= 0
Slice(s, start, end) == SubSeq(s, start + 1, Min(end, Len(s)))

\* Array.prototype.slice(-n): a negative start counts from the end; -0 is 0
SliceLast(s, n) ==
  IF n = 0 THEN s ELSE SubSeq(s, Max(Len(s) - n, 0) + 1, Len(s))

RECURSIVE Flatten(_)
Flatten(ss_) ==
  IF ss_ = <<>> THEN <<>> ELSE Head(ss_) \o Flatten(Tail(ss_))

MapSeq(s, Op(_)) == [x \in 1..Len(s) |-> Op(s[x])]

(***************************************************************************)
(* Strings that are tokenized are sequences of characters.                 *)
(***************************************************************************)
\* String.prototype.toLowerCase / toLocaleLowerCase on the model's alphabet
LowerChar(c) ==
  CASE c = "A" -> "a"
    [] c = "B" -> "b"
    [] c = "C" -> "c"
    [] OTHER -> c

toLowerCase(s) == [x \in 1..Len(s) |-> LowerChar(s[x])]

\* String.prototype.split(' '): every space ends a word, so an empty string
\* gives one empty word and two adjacent spaces give an empty word
RECURSIVE SplitFrom(_, _)
SplitFrom(s, word) ==
  IF s = <<>> THEN <<word>>
  ELSE IF Head(s) = " " THEN <<word>> \o SplitFrom(Tail(s), <<>>)
  ELSE SplitFrom(Tail(s), Append(word, Head(s)))

split(s) == SplitFrom(s, <<>>)

\* Array.prototype.includes
includes(s, x) == \E k \in 1..Len(s) : s[k] = x

(***************************************************************************)
(* IEEE 754 binary64 arithmetic, as JavaScript numbers compute             *)
(* dotProduct / (Math.sqrt(normA) * Math.sqrt(normB)).  Naturals wider     *)
(* than 32-bit integers are little-endian sequences of limbs.             *)
(***************************************************************************)
\* limb base 2^15
Base == 32768
\* bits per limb
LimbBits == 15
\* significand bits of a binary64 number
Precision == 53
\* extra fraction bits carried by sqrt and division before rounding
Guard == 60

RECURSIVE BN(_)
BN(n) == IF n = 0 THEN <<>> ELSE <<n % Base>> \o BN(n \div Base)

RECURSIVE BTrim(_)
BTrim(a) ==
  IF a # <<>> /\ a[Len(a)] = 0 THEN BTrim(SubSeq(a, 1, Len(a) - 1)) ELSE a

Limb(a, x) == IF x <= Len(a) THEN a[x] ELSE 0

RECURSIVE BAddFrom(_, _, _, _)
BAddFrom(a, b, x, carry) ==
  IF x > Len(a) /\ x > Len(b)
    THEN IF carry = 0 THEN <<>> ELSE <<carry>>
    ELSE LET t == Limb(a, x) + Limb(b, x) + carry
         IN <<t % Base>> \o BAddFrom(a, b, x + 1, t \div Base)

BAdd(a, b) == BAddFrom(a, b, 1, 0)

\* a - b for a >= b
RECURSIVE BSubFrom(_, _, _, _)
BSubFrom(a, b, x, borrow) ==
  IF x > Len(a) THEN <<>>
  ELSE LET t == a[x] - Limb(b, x) - borrow
       IN <<(t + Base) % Base>> \o BSubFrom(a, b, x + 1, IF t < 0 THEN 1 ELSE 0)

BSub(a, b) == BTrim(BSubFrom(a, b, 1, 0))

\* -1, 0, 1 as a < b, a = b, a > b
RECURSIVE BCmpFrom(_, _, _)
BCmpFrom(a, b, x) ==
  IF x = 0 THEN 0
  ELSE IF a[x] < b[x] THEN -1
  ELSE IF a[x] > b[x] THEN 1
  ELSE BCmpFrom(a, b, x - 1)

BCmp(a, b) ==
  IF Len(a) < Len(b) THEN -1
  ELSE IF Len(a) > Len(b) THEN 1
  ELSE BCmpFrom(a, b, Len(a))

RECURSIVE BMulSmallFrom(_, _, _, _)
BMulSmallFrom(a, d, x, carry) ==
  IF x > Len(a) THEN (IF carry = 0 THEN <<>> ELSE <<carry>>)
  ELSE LET t == a[x] * d + carry
       IN <<t % Base>> \o BMulSmallFrom(a, d, x + 1, t \div Base)

BMulSmall(a, d) == IF d = 0 THEN <<>> ELSE BMulSmallFrom(a, d, 1, 0)

RECURSIVE BMulFrom(_, _, _)
BMulFrom(a, b, x) ==
  IF x > Len(b) THEN <<>>
  ELSE BAdd(BMulSmall(a, b[x]), <<0>> \o BMulFrom(a, b, x + 1))

BMul(a, b) == IF a = <<>> THEN <<>> ELSE BTrim(BMulFrom(a, b, 1))

RECURSIVE TwoTo(_)
TwoTo(n) == IF n = 0 THEN 1 ELSE 2 * TwoTo(n - 1)

\* 2^n
BPow2(n) == [x \in 1..(n \div LimbBits) |-> 0] \o <<TwoTo(n % LimbBits)>>

\* a * 2^n
BShl(a, n) == BMul(a, BPow2(n))

RECURSIVE BBitLenSmall(_)
BBitLenSmall(n) == IF n = 0 THEN 0 ELSE 1 + BBitLenSmall(n \div 2)

BBitLen(a) ==
  IF a = <<>> THEN 0 ELSE (Len(a) - 1) * LimbBits + BBitLenSmall(a[Len(a)])

\* the greatest q + t, t < 2^(n+1), with (q + t) * d <= a
RECURSIVE BDivBits(_, _, _, _)
BDivBits(a, d, q, n) ==
  IF n < 0 THEN q
  ELSE LET t == BAdd(q, BPow2(n))
       IN IF BCmp(BMul(t, d), a) <= 0 THEN BDivBits(a, d, t, n - 1)
                                      ELSE BDivBits(a, d, q, n - 1)

\* floor(a / d)
BDiv(a, d) == BDivBits(a, d, <<>>, Max(BBitLen(a) - BBitLen(d), 0) + 1)

\* floor(a / d) for a single limb d, from the top limb down
RECURSIVE BDivSmallFrom(_, _, _, _)
BDivSmallFrom(a, d, x, rem) ==
  IF x = 0 THEN <<>>
  ELSE LET t == rem * Base + a[x]
       IN BDivSmallFrom(a, d, x - 1, t % d) \o <<t \div d>>

\* floor(a / 2^n)
BShr(a, n) ==
  LET whole == SubSeq(a, n \div LimbBits + 1, Len(a))
  IN BTrim(BDivSmallFrom(whole, TwoTo(n % LimbBits), Len(whole), 0))

\* the greatest r + t, t < 2^(n+1), with (r + t)^2 <= a
RECURSIVE BSqrtBits(_, _, _)
BSqrtBits(a, r, n) ==
  IF n < 0 THEN r
  ELSE LET t == BAdd(r, BPow2(n))
       IN IF BCmp(BMul(t, t), a) <= 0 THEN BSqrtBits(a, t, n - 1)
                                      ELSE BSqrtBits(a, r, n - 1)

\* floor(sqrt(a))
BSqrt(a) == BSqrtBits(a, <<>>, BBitLen(a) \div 2 + 1)

(***************************************************************************)
(* A number is NaN, zero, or sign * m * 2^e with 2^52 <= m < 2^53.         *)
(***************************************************************************)
NaN == [nan |-> TRUE, sign |-> 0, m |-> <<>>, e |-> 0]
Zero == [nan |-> FALSE, sign |-> 0, m |-> <<>>, e |-> 0]

\* round to nearest, ties to even: the exact value is sign * m * 2^e, plus a
\* nonzero amount below the last bit of m when sticky
RoundNearestEven(sign, m, e, sticky) ==
  IF m = <<>> THEN Zero
  ELSE LET len == BBitLen(m)
       IN IF len <= Precision
            THEN [nan |-> FALSE, sign |-> sign,
                  m |-> BShl(m, Precision - len), e |-> e - (Precision - len)]
            ELSE LET drop == len - Precision
                     q == BShr(m, drop)
                     rem == BSub(m, BShl(q, drop))
                     half == BCmp(rem, BPow2(drop - 1))
                     odd == q[1] % 2 = 1
                     up == half > 0 \/ (half = 0 /\ (sticky \/ odd))
                     r == IF up THEN BAdd(q, <<1>>) ELSE q
                 IN IF BBitLen(r) > Precision
                      THEN [nan |-> FALSE, sign |-> sign,
                            m |-> BShr(r, 1), e |-> e + drop + 1]
                      ELSE [nan |-> FALSE, sign |-> sign, m |-> r, e |-> e + drop]

\* an integer of small magnitude is a number exactly
FromInt(n) ==
  IF n = 0 THEN Zero
  ELSE RoundNearestEven(IF n < 0 THEN -1 ELSE 1, BN(IF n < 0 THEN -n ELSE n),
                        0, FALSE)

\* Math.sqrt of a non-negative integer
MathSqrt(n) ==
  IF n = 0 THEN Zero
  ELSE LET a == BShl(BN(n), 2 * Guard)
           r == BSqrt(a)
       IN RoundNearestEven(1, r, -Guard, BCmp(BMul(r, r), a) # 0)

\* x * y
FMul(x, y) ==
  IF x.nan \/ y.nan THEN NaN
  ELSE IF x.sign = 0 \/ y.sign = 0 THEN Zero
  ELSE RoundNearestEven(x.sign * y.sign, BMul(x.m, y.m), x.e + y.e, FALSE)

\* x / y; 0 / 0 is NaN (x / 0 with x # 0 is never asked for)
FDiv(x, y) ==
  IF x.nan \/ y.nan \/ y.sign = 0 THEN NaN
  ELSE IF x.sign = 0 THEN Zero
  ELSE LET a == BShl(x.m, Guard)
           q == BDiv(a, y.m)
       IN RoundNearestEven(x.sign * y.sign, q, x.e - y.e - Guard,
                           BCmp(BMul(q, y.m), a) # 0)

\* the sign of x - y for numbers that are not NaN
FCmp(x, y) ==
  IF x.sign # y.sign THEN (IF x.sign < y.sign THEN -1 ELSE 1)
  ELSE IF x.sign = 0 THEN 0
  ELSE LET mag == IF x.e # y.e THEN (IF x.e < y.e THEN -1 ELSE 1)
                  ELSE BCmp(x.m, y.m)
       IN x.sign * mag

One == FromInt(1)

(***************************************************************************)
(* The catalog served by the issuances API and the PDFs behind it.         *)
(***************************************************************************)
Issuance(id, title, circularNumber, downloadLink) ==
  [id |-> id, title |-> title, circularNumber |-> circularNumber,
   downloadLink |-> downloadLink, content |-> None, chunks |-> None]

Catalog ==
  << Issuance(1, <<"A", " ", "b">>, <<"c">>, "u1"),
     Issuance(2, <<"c">>, <<"d">>, "u2"),
     Issuance(3, <<"a", " ", " ", "d">>, <<"a">>, NULL) >>

\* extractTextFromPdf: the text behind each download link
PdfText(link) ==
  CASE link = "u1" -> "pqr"
    [] link = "u2" -> "p"
    [] OTHER -> ""

\* RecursiveCharacterTextSplitter.createDocuments: the spans of a text
SplitText(text) ==
  CASE text = "pqr" -> <<"p", "q", "r">>
    [] text = "p" -> <<"p">>
    [] OTHER -> <<>>

\* the Embedding Provider's model: one fixed vector per text
EmbedText(text) ==
  CASE text = "p" -> <<1, 0>>
    [] text = "q" -> <<0, 1>>
    [] text = "r" -> <<2, 3>>
    [] OTHER -> <<0, 0>>

\* JavaScript truthiness of doc.content and doc.downloadLink
Truthy(opt) == opt # None /\ opt[1] # ""
HasLink(doc) == doc.downloadLink # NULL /\ doc.downloadLink # ""

(***************************************************************************)
(* pdfService.ts                                                           *)
(***************************************************************************)
createChunks(text, metadata) ==
  MapSeq(SplitText(text),
         LAMBDA span : [text |-> span, embedding |-> None, metadata |-> metadata])

\* processPdf: ok = FALSE is a failed download or extraction
processPdf(document, ok) ==
  IF ~HasLink(document) \/ ~ok
    THEN [document EXCEPT !.content = Some(""), !.chunks = Some(<<>>)]
    ELSE LET content == PdfText(document.downloadLink)
         IN [document EXCEPT
               !.content = Some(content),
               !.chunks = Some(createChunks(content,
                            [documentId |-> document.id,
                             circularNumber |-> document.circularNumber,
                             title |-> document.title,
                             source |-> document.downloadLink]))]

\* processMultiplePdfs: Promise.all keeps the order of the documents
processMultiplePdfs(documents, oks) ==
  [x \in 1..Len(documents) |-> processPdf(documents[x], oks[x])]

(***************************************************************************)
(* embeddingService.ts generateEmbeddings, one sub-batch.  The provider    *)
(* answers the request for `batch` with n vectors; n = 0 also stands for a *)
(* request that fails.  With n < Len(batch) the loop at lines 54-59 has    *)
(* pushed n chunks when data.data[n] throws, and the catch at line 68      *)
(* pushes the whole batch again.                                           *)
(***************************************************************************)
WithEmbedding(chunk) == [chunk EXCEPT !.embedding = Some(EmbedText(chunk.text))]

pushSubBatch(result, batch, n) ==
  LET pushed == [j \in 1..Min(n, Len(batch)) |-> WithEmbedding(batch[j])]
  IN IF n >= Len(batch) THEN result \o pushed
                         ELSE result \o pushed \o batch

(***************************************************************************)
(* JSON.stringify / JSON.parse of the snapshot: a JSON object holds the    *)
(* properties whose value is not undefined; a property read from a parsed  *)
(* object that lacks it is undefined again.                                *)
(***************************************************************************)
JSONstringify(props) ==
  [key \in {key \in DOMAIN props : props[key] # None} |-> props[key][1]]

DocProps(doc) ==
  [id |-> Some(doc.id), title |-> Some(doc.title),
   circularNumber |-> Some(doc.circularNumber),
   downloadLink |-> Some(doc.downloadLink),
   content |-> doc.content, chunks |-> doc.chunks]

ChunkProps(chunk) ==
  [text |-> Some(chunk.text), embedding |-> chunk.embedding,
   metadata |-> Some(chunk.metadata)]

\* an entry whose string JSON.parse rejects (it throws a SyntaxError)
Unparseable == <<[unparseable |-> TRUE]>>
CanParse(entry) == entry # Some(Unparseable)

Prop(obj, key) == IF key \in DOMAIN obj THEN Some(obj[key]) ELSE None

JSONparseDoc(obj) ==
  [id |-> obj["id"], title |-> obj["title"],
   circularNumber |-> obj["circularNumber"],
   downloadLink |-> obj["downloadLink"],
   content |-> Prop(obj, "content"), chunks |-> Prop(obj, "chunks")]

JSONparseChunk(obj) ==
  [text |-> obj["text"], embedding |-> Prop(obj, "embedding"),
   metadata |-> obj["metadata"]]

\* a variant that snapshots only the documents whose text was extracted
docsForStorageExtractedOnly(allProcessedDocs) ==
  MapSeq(SelectSeq(allProcessedDocs, LAMBDA doc : Truthy(doc.content)),
         LAMBDA doc : [doc EXCEPT !.chunks = None])

\* documentStore.ts:126-129
docsForStorage(allProcessedDocs) ==
  MapSeq(allProcessedDocs, LAMBDA doc : [doc EXCEPT !.chunks = None])

\* documentStore.ts:133-136
chunksForStorage(newChunks) ==
  MapSeq(newChunks, LAMBDA chunk : [chunk EXCEPT !.embedding = None])

\* documentStore.ts:138-139
existingChunks(storage) ==
  IF storage.rag_chunks = None THEN <<>>
  ELSE MapSeq(storage.rag_chunks[1], JSONparseChunk)

\* a variant that keeps the oldest chunks: slice(0, maxStoredChunks)
combinedChunksKeepOldest(storage, newChunks) ==
  Slice(existingChunks(storage) \o chunksForStorage(newChunks), 0, maxStoredChunks)

\* documentStore.ts:143
combinedChunks(storage, newChunks) ==
  SliceLast(existingChunks(storage) \o chunksForStorage(newChunks), maxStoredChunks)

(***************************************************************************)
(* The snapshot write of documentStore.ts:123-149.  st is what the storage *)
(* does: "ok", "failDocs" (the first setItem throws, e.g. quota exceeded)  *)
(* or "failChunks" (the second setItem throws).                            *)
(***************************************************************************)
StorageOutcomes == {"ok", "failDocs", "failChunks"}

snapshot(storage, allProcessedDocs, newChunks, st) ==
  IF st = "failDocs" THEN storage
  ELSE LET docsStr == MapSeq(docsForStorage(allProcessedDocs),
                             LAMBDA doc : JSONstringify(DocProps(doc)))
           chunksStr == MapSeq(combinedChunks(storage, newChunks),
                               LAMBDA chunk : JSONstringify(ChunkProps(chunk)))
       IN IF st = "failChunks" \/ ~CanParse(storage.rag_chunks)
            THEN [storage EXCEPT !.rag_documents = Some(docsStr)]
            ELSE [rag_documents |-> Some(docsStr), rag_chunks |-> Some(chunksStr)]

(***************************************************************************)
(* processDocuments, documentStore.ts:55-156.                              *)
(***************************************************************************)
Inv == {1, 2}

IdleFrame ==
  [pc |-> "idle", unprocessedDocs |-> <<>>, allProcessedDocs |-> <<>>,
   i |-> 0, processedBatch |-> <<>>, allChunks |-> <<>>, result |-> <<>>,
   k |-> 0, failed |-> {}, caller |-> 0]

\* documentStore.ts:61
unprocessedDocs(docs) ==
  SelectSeq(docs, LAMBDA doc : ~Truthy(doc.content) /\ HasLink(doc))

\* documentStore.ts:75
processedDocs(docs) == SelectSeq(docs, LAMBDA doc : Truthy(doc.content))

\* documentStore.ts:78
docBatch(f) == Slice(f.unprocessedDocs, f.i, f.i + docBatchSize)

\* embeddingService.ts:37
subBatch(f) == Slice(f.allChunks, f.k, f.k + embedBatchSize)

\* documentStore.ts:84-89
allChunksOf(processedBatch) ==
  Flatten(MapSeq(processedBatch,
                 LAMBDA doc : IF doc.chunks # None THEN doc.chunks[1] ELSE <<>>))

\* a variant that hands a document the chunks of the other documents
finalProcessedBatchOthers(processedBatch, chunksWithEmbeddings) ==
  MapSeq(processedBatch,
         LAMBDA doc :
           IF doc.chunks = None THEN doc
           ELSE [doc EXCEPT !.chunks =
                   Some(SelectSeq(chunksWithEmbeddings,
                          LAMBDA chunk : chunk.metadata.documentId # doc.id))])

\* documentStore.ts:95-106
finalProcessedBatch(processedBatch, chunksWithEmbeddings) ==
  MapSeq(processedBatch,
         LAMBDA doc :
           IF doc.chunks = None THEN doc
           ELSE [doc EXCEPT !.chunks =
                   Some(SelectSeq(chunksWithEmbeddings,
                          LAMBDA chunk : chunk.metadata.documentId = doc.id))])

\* documentStore.ts:116
newChunks(chunksWithEmbeddings) ==
  SelectSeq(chunksWithEmbeddings, LAMBDA chunk : chunk.embedding # None)

\* a variant without the try/catch of lines 124-148: a storage error reaches
\* the handler of line 151 and ends the invocation
afterBatchUncaught(f, allProcessedDocs, st) ==
  IF st # "ok" \/ f.i + docBatchSize >= Len(f.unprocessedDocs) THEN IdleFrame
  ELSE [f EXCEPT !.allProcessedDocs = allProcessedDocs,
                 !.i = @ + docBatchSize,
                 !.processedBatch = <<>>,
                 !.allChunks = <<>>,
                 !.result = <<>>,
                 !.k = 0,
                 !.failed = {},
                 !.pc = "extract"]

\* lines 77 and 146-150: whatever the storage did (st), the loop goes on to
\* the next document batch, or ends after the last one
afterBatch(f, allProcessedDocs, st) ==
  IF f.i + docBatchSize >= Len(f.unprocessedDocs) THEN IdleFrame
  ELSE [f EXCEPT !.allProcessedDocs = allProcessedDocs,
                 !.i = @ + docBatchSize,
                 !.processedBatch = <<>>,
                 !.allChunks = <<>>,
                 !.result = <<>>,
                 !.k = 0,
                 !.failed = {},
                 !.pc = "extract"]

Frame ==
  /\ UNCHANGED <<browser, fd, ss, concurrency, docBatchSize, page>>

\* lines 56-81: up to the first await, or to the return of line 65
processDocumentsStart(inv) ==
  /\ pd[inv].pc = "idle"
  /\ inv <= concurrency
  /\ LET docs == documentsStore
         todo == unprocessedDocs(docs)
     IN IF Len(todo) = 0
          THEN /\ pd' = [pd EXCEPT ![inv] = IdleFrame]
               /\ returned' = [returned EXCEPT ![inv] = "noop"]
               /\ isLoadingStore' = FALSE
               /\ UNCHANGED <<documentsStore, chunksStore, progressStore,
                              localStorage, runs, written, lastWrite>>
          ELSE /\ runs < MaxRuns
               /\ runs' = runs + 1
               /\ isLoadingStore' = TRUE
               /\ progressStore' = [total |-> Len(todo), processed |-> 0]
               /\ returned' = [returned EXCEPT ![inv] = "running"]
               /\ pd' = [pd EXCEPT ![inv] =
                           [IdleFrame EXCEPT
                              !.pc = "extract",
                              !.caller = page.instance,
                              !.unprocessedDocs = todo,
                              !.allProcessedDocs = processedDocs(docs)]]
               /\ UNCHANGED <<documentsStore, chunksStore, localStorage,
                              written, lastWrite>>
  /\ Frame
\* line 81 resolves: processMultiplePdfs returns; lines 84-92 start
\* generateEmbeddings, whose first request is sent if there is any chunk
processDocumentsExtract(inv) ==
  /\ pd[inv].pc = "extract"
  /\ \E oks \in [1..Len(docBatch(pd[inv])) -> BOOLEAN] :
       LET processedBatch == processMultiplePdfs(docBatch(pd[inv]), oks)
           allChunks == allChunksOf(processedBatch)
       IN pd' = [pd EXCEPT ![inv] =
                   [@ EXCEPT !.processedBatch = processedBatch,
                             !.allChunks = allChunks,
                             !.result = <<>>,
                             !.k = 0,
                             !.failed = {},
                             !.pc = IF allChunks = <<>> THEN "save" ELSE "embed"]]
  /\ UNCHANGED <<documentsStore, chunksStore, isLoadingStore, progressStore,
                 localStorage, returned, runs, written, lastWrite>>
  /\ Frame

\* embeddingService.ts:41-69: the request of the sub-batch at offset k ends
processDocumentsEmbed(inv) ==
  /\ pd[inv].pc = "embed"
  /\ \E n \in 0..Len(subBatch(pd[inv])) :
       LET f == pd[inv]
           ok == n = Len(subBatch(f))
           more == f.k + embedBatchSize < Len(f.allChunks)
       IN pd' = [pd EXCEPT ![inv] =
                   [@ EXCEPT !.result = pushSubBatch(f.result, subBatch(f), n),
                             !.failed = IF ok THEN @ ELSE @ \cup {f.k},
                             !.k = IF ok /\ more THEN @ ELSE @ + embedBatchSize,
                             !.pc = IF ~more THEN "save"
                                    ELSE IF ok THEN "pause" ELSE "embed"]]
  /\ UNCHANGED <<documentsStore, chunksStore, isLoadingStore, progressStore,
                 localStorage, returned, runs, written, lastWrite>>
  /\ Frame

\* embeddingService.ts:63-65: the 200 ms pause ends, the next request is sent
processDocumentsPause(inv) ==
  /\ pd[inv].pc = "pause"
  /\ pd' = [pd EXCEPT ![inv] =
              [@ EXCEPT !.k = @ + embedBatchSize,
                        !.pc = "embed"]]
  /\ UNCHANGED <<documentsStore, chunksStore, isLoadingStore, progressStore,
                 localStorage, returned, runs, written, lastWrite>>
  /\ Frame

\* a variant without the catch and finally of lines 151-155: the rejection
\* of line 93 reaches the caller and isLoading keeps its value
processDocumentsSaveFailsUncaught(inv) ==
  /\ pd[inv].pc = "save"
  /\ pd' = [pd EXCEPT ![inv] = IdleFrame]
  /\ returned' = [returned EXCEPT ![inv] = "rejected"]
  /\ UNCHANGED <<documentsStore, chunksStore, isLoadingStore, progressStore,
                 localStorage, runs, written, lastWrite>>
  /\ Frame

\* line 93 rejects (unnamed/part_001:158-167): lines 151-155
processDocumentsSaveFails(inv) ==
  /\ pd[inv].pc = "save"
  /\ pd' = [pd EXCEPT ![inv] = IdleFrame]
  /\ returned' = [returned EXCEPT ![inv] = "aborted"]
  /\ isLoadingStore' = FALSE
  /\ UNCHANGED <<documentsStore, chunksStore, progressStore, localStorage,
                 runs, written, lastWrite>>
  /\ Frame

\* line 93 resolves: lines 94-150 up to the next await or the end of the loop
processDocumentsMerge(inv) ==
  /\ pd[inv].pc = "save"
  /\ \E st \in StorageOutcomes :
       LET f == pd[inv]
           chunksWithEmbeddings == f.result
           allProcessedDocs ==
             f.allProcessedDocs
               \o finalProcessedBatch(f.processedBatch, chunksWithEmbeddings)
           new == newChunks(chunksWithEmbeddings)
           last == f.i + docBatchSize >= Len(f.unprocessedDocs)
       IN /\ documentsStore' = allProcessedDocs
          /\ chunksStore' = chunksStore \o new
          /\ progressStore' =
               [progressStore EXCEPT !.processed = @ + Len(docBatch(f))]
          /\ IF browser
               THEN /\ localStorage' = snapshot(localStorage, allProcessedDocs, new, st)
                    /\ written' = IF st = "ok" /\ CanParse(localStorage.rag_chunks)
                                    THEN written \o chunksForStorage(new)
                                    ELSE written
                    /\ lastWrite' =
                         IF st = "ok" /\ CanParse(localStorage.rag_chunks)
                           THEN Some([docs |-> allProcessedDocs,
                                      chunks |-> combinedChunks(localStorage, new)])
                           ELSE None
               ELSE /\ st = "ok"
                    /\ UNCHANGED <<localStorage, written, lastWrite>>
          /\ pd' = [pd EXCEPT ![inv] = afterBatch(f, allProcessedDocs, st)]
          /\ returned' = IF last THEN [returned EXCEPT ![inv] = "completed"]
                                  ELSE returned
          /\ isLoadingStore' = IF last THEN FALSE ELSE isLoadingStore
  /\ UNCHANGED runs
  /\ Frame

(***************************************************************************)
(* fetchDocuments, documentStore.ts:34-50.                                 *)
(***************************************************************************)
fetchDocumentsStart ==
  /\ fd = "idle"
  /\ fd' = "fetch"
  /\ isLoadingStore' = TRUE
  /\ UNCHANGED <<documentsStore, chunksStore, progressStore, browser,
                 localStorage, pd, ss, returned, runs, concurrency, docBatchSize, page, written,
                 lastWrite>>

\* lines 42-44 with a response that holds the issuances list
fetchDocumentsOk ==
  /\ fd = "fetch"
  /\ fd' = "idle"
  /\ documentsStore' = Catalog
  /\ progressStore' = [total |-> Len(Catalog), processed |-> 0]
  /\ isLoadingStore' = FALSE
  /\ UNCHANGED <<chunksStore, browser, localStorage, pd, ss, returned, runs,
                 concurrency, docBatchSize, page, written, lastWrite>>

\* fetch rejects, or response.ok is false and line 39 throws
fetchDocumentsError ==
  /\ fd = "fetch"
  /\ fd' = "idle"
  /\ isLoadingStore' = FALSE
  /\ UNCHANGED <<documentsStore, chunksStore, progressStore, browser,
                 localStorage, pd, ss, returned, runs, concurrency, docBatchSize, page, written,
                 lastWrite>>

\* the body has no issuances list: line 43 stores [], line 44 throws
fetchDocumentsNoIssuances ==
  /\ fd = "fetch"
  /\ fd' = "idle"
  /\ documentsStore' = <<>>
  /\ isLoadingStore' = FALSE
  /\ UNCHANGED <<chunksStore, progressStore, browser, localStorage, pd, ss,
                 returned, runs, concurrency, docBatchSize, page, written, lastWrite>>

(***************************************************************************)
(* loadFromStorage, documentStore.ts:161-186.                              *)
(***************************************************************************)
\* lines 168-171 run to their end: the documents entry is there and parses
loadsDocs(storage) ==
  browser /\ storage.rag_documents # None /\ CanParse(storage.rag_documents)

\* lines 174-179 run to their end: line 169 has not thrown, and the chunks
\* entry is there and parses
loadsChunks(storage) ==
  /\ browser
  /\ CanParse(storage.rag_documents)
  /\ storage.rag_chunks # None /\ CanParse(storage.rag_chunks)

\* the value returned: line 181, or false from lines 162 and 184
loadFromStorageResult(storage) ==
  /\ browser
  /\ CanParse(storage.rag_documents) /\ CanParse(storage.rag_chunks)
  /\ (storage.rag_documents # None \/ storage.rag_chunks # None)

\* lines 168-179: what the call puts into the stores
restore ==
  /\ documentsStore' =
       IF loadsDocs(localStorage)
         THEN MapSeq(localStorage.rag_documents[1], JSONparseDoc)
         ELSE documentsStore
  /\ chunksStore' =
       IF loadsChunks(localStorage)
         THEN MapSeq(localStorage.rag_chunks[1], JSONparseChunk)
         ELSE chunksStore

loadFromStorage ==
  /\ restore
  /\ UNCHANGED <<isLoadingStore, progressStore, browser, localStorage, pd, fd,
                 ss, returned, runs, concurrency, docBatchSize, page, written,
                 lastWrite>>

(***************************************************************************)
(* clearData, documentStore.ts:253-261.                                    *)
(***************************************************************************)
EmptyStorage == [rag_documents |-> None, rag_chunks |-> None]

\* a variant that removes only the documents entry
clearDataKeepsChunks ==
  /\ documentsStore' = <<>>
  /\ chunksStore' = <<>>
  /\ localStorage' = IF browser THEN [localStorage EXCEPT !.rag_documents = None]
                                ELSE localStorage
  /\ written' = <<>>
  /\ lastWrite' = None
  /\ UNCHANGED <<isLoadingStore, progressStore, browser, pd, fd, ss, returned,
                 runs, concurrency, docBatchSize, page>>

clearData ==
  /\ documentsStore' = <<>>
  /\ chunksStore' = <<>>
  /\ localStorage' = IF browser THEN EmptyStorage ELSE localStorage
  /\ written' = <<>>
  /\ lastWrite' = None
  /\ UNCHANGED <<isLoadingStore, progressStore, browser, pd, fd, ss, returned,
                 runs, concurrency, docBatchSize, page>>

(***************************************************************************)
(* embeddingService.ts: similarity and the semantic pass.                  *)
(***************************************************************************)
\* the vectors the Embedding Provider answers with
Vectors == {<<0, 0>>, <<1, 0>>, <<0, 1>>, <<2, 3>>}

RECURSIVE SumTo(_, _, _)
SumTo(vecA, vecB, x) ==
  IF x = 0 THEN 0 ELSE SumTo(vecA, vecB, x - 1) + vecA[x] * vecB[x]

\* lines 90-102; the three sums are exact on small integers
cosineSimilarity(vecA, vecB) ==
  LET dotProduct == SumTo(vecA, vecB, Len(vecA))
      normA == SumTo(vecA, vecA, Len(vecA))
      normB == SumTo(vecB, vecB, Len(vecA))
  IN FDiv(FromInt(dotProduct), FMul(MathSqrt(normA), MathSqrt(normB)))

\* cosineSimilarity on the provider's vectors, computed once
CosineTable == [vecA \in Vectors, vecB \in Vectors |-> cosineSimilarity(vecA, vecB)]

\* the comparator (a, b) => b.score - a.score as Array.prototype.sort reads
\* it: a NaN result counts as +0
compareFn(a, b) ==
  IF a.score.nan \/ b.score.nan THEN 0 ELSE FCmp(b.score, a.score)

\* Array.prototype.sort is stable: an element moves in front of those that
\* compare greater than it, and of no other.  (With a NaN score the
\* comparator is inconsistent and the order is the one insertion gives.)
RECURSIVE insertSorted(_, _)
insertSorted(sorted, x) ==
  IF sorted = <<>> THEN <<x>>
  ELSE IF compareFn(sorted[Len(sorted)], x) > 0
    THEN Append(insertSorted(SubSeq(sorted, 1, Len(sorted) - 1), x),
                sorted[Len(sorted)])
    ELSE Append(sorted, x)

RECURSIVE sortFrom(_, _, _)
sortFrom(sorted, s, x) ==
  IF x > Len(s) THEN sorted ELSE sortFrom(insertSorted(sorted, s[x]), s, x + 1)

sort(s) == sortFrom(<<>>, s, 1)

\* lines 112-114 and documentStore.ts:216
hasEmbedding(chunk) == chunk.embedding # None /\ Len(chunk.embedding[1]) > 0

\* lines 107-133
searchSimilarChunks(queryEmbedding, chunks, limit) ==
  LET chunksWithEmbeddings == SelectSeq(chunks, hasEmbedding)
      results ==
        MapSeq(chunksWithEmbeddings,
               LAMBDA chunk :
                 [documentId |-> chunk.metadata.documentId,
                  circularNumber |-> chunk.metadata.circularNumber,
                  title |-> chunk.metadata.title,
                  source |-> Some(chunk.metadata.source),
                  text |-> Some(chunk.text),
                  score |-> CosineTable[queryEmbedding, chunk.embedding[1]]])
  IN IF Len(chunksWithEmbeddings) = 0 THEN <<>>
     ELSE Slice(sort(results), 0, limit)

(***************************************************************************)
(* semanticSearch, documentStore.ts:192-249.                               *)
(***************************************************************************)
\* the queries typed into the chat: "a", "A c", "" and "x"
Queries == { <<"a">>, <<"A", " ", "c">>, <<>>, <<"x">> }

\* lines 198-202
matchesTitle(doc, query) ==
  LET queryWords == split(query)
      titleWords == split(toLowerCase(doc.title))
  IN \E w \in 1..Len(queryWords) : includes(titleWords, toLowerCase(queryWords[w]))

\* lines 203-206
matchesCircularNumber(doc, query) ==
  LET queryWords == split(query)
      circularNumberWords == split(toLowerCase(doc.circularNumber))
  IN \E w \in 1..Len(queryWords) :
       includes(circularNumberWords, toLowerCase(queryWords[w]))

matchingDocCircularNumber(docs, query) ==
  SelectSeq(docs, LAMBDA doc : matchesCircularNumber(doc, query))

matchingTitle(docs, query) ==
  SelectSeq(docs, LAMBDA doc : matchesTitle(doc, query))

\* a variant that lists the title matches first
matchingDocsTitleFirst(docs, query) ==
  matchingTitle(docs, query) \o matchingDocCircularNumber(docs, query)

\* line 208
matchingDocs(docs, query) ==
  matchingDocCircularNumber(docs, query) \o matchingTitle(docs, query)

\* lines 236-243: IssuanceDocument has no source property
lexicalResults(docs) ==
  MapSeq(docs,
         LAMBDA doc :
           [documentId |-> doc.id, circularNumber |-> doc.circularNumber,
            title |-> doc.title, source |-> None, text |-> doc.content,
            score |-> One])

\* lines 235-248
fuse(matching, searchResults, limit) ==
  Slice(sort(lexicalResults(matching) \o searchResults), 0, limit)

IdleSearch ==
  [pc |-> "idle", query |-> <<>>, limit |-> 0,
   matchingDocCircularNumber |-> <<>>, matchingDocs |-> <<>>,
   queryEmbedding |-> <<>>, searchResults |-> <<>>, result |-> <<>>]

\* lines 193-229: up to the request for the query's embedding
semanticSearchStart ==
  /\ ss.pc # "embedding"
  /\ \E query \in Queries, limit \in 0..MaxLimit :
       ss' = [IdleSearch EXCEPT
                !.pc = "embedding", !.query = query, !.limit = limit,
                !.matchingDocCircularNumber =
                   matchingDocCircularNumber(documentsStore, query),
                !.matchingDocs = matchingDocs(documentsStore, query)]
  /\ UNCHANGED <<documentsStore, chunksStore, isLoadingStore, progressStore,
                 browser, localStorage, pd, fd, returned, runs, concurrency, docBatchSize, page,
                 written, lastWrite>>

\* the provider answers with the query's vector: lines 232-248
semanticSearchResolve ==
  /\ ss.pc = "embedding"
  /\ \E queryEmbedding \in Vectors :
       LET searchResults ==
             searchSimilarChunks(queryEmbedding, chunksStore, ss.limit)
       IN ss' = [ss EXCEPT
                   !.pc = "done",
                   !.queryEmbedding = queryEmbedding,
                   !.searchResults = searchResults,
                   !.result = fuse(ss.matchingDocs, searchResults, ss.limit)]
  /\ UNCHANGED <<documentsStore, chunksStore, isLoadingStore, progressStore,
                 browser, localStorage, pd, fd, returned, runs, concurrency, docBatchSize, page,
                 written, lastWrite>>

\* the provider fails: generateQueryEmbedding rethrows (lines 81-84) and
\* semanticSearch, which has no handler, rejects
semanticSearchReject ==
  /\ ss.pc = "embedding"
  /\ ss' = [ss EXCEPT !.pc = "rejected"]
  /\ UNCHANGED <<documentsStore, chunksStore, isLoadingStore, progressStore,
                 browser, localStorage, pd, fd, returned, runs, concurrency, docBatchSize, page,
                 written, lastWrite>>

(***************************************************************************)
(* routes/documents/+page.svelte.  Each visit to the page makes a new      *)
(* component instance whose `processing` flag starts false; the store is a *)
(* module singleton and outlives the instances.                            *)
(***************************************************************************)
\* visits to the documents page, per behaviour
MaxVisits == 2

\* the store is driven directly, by no page
NoPage == [mounted |-> FALSE, instance |-> 0]

\* lines 13 and 72-81: the flag of the live instance is true from line 73 to
\* the finally of line 79, that is while the invocation awaited by the
\* handler of this instance is in flight
processing ==
  \E inv \in Inv : pd[inv].pc # "idle" /\ pd[inv].caller = page.instance

\* lines 72-75 behind the button of lines 148-154, which is disabled when
\* processing || documents.length === 0 (documents is the subscribed copy of
\* documentsStore, lines 24-27)
handleProcessDocuments(inv) ==
  /\ page.mounted
  /\ ~processing
  /\ Len(documentsStore) # 0
  /\ processDocumentsStart(inv)

\* goto('/') or goto('/chat'): the instance is destroyed, the invocation its
\* handler awaits goes on
pageLeave ==
  /\ page.mounted
  /\ page' = [page EXCEPT !.mounted = FALSE]
  /\ UNCHANGED <<documentsStore, chunksStore, isLoadingStore, progressStore,
                 browser, localStorage, pd, fd, ss, returned, runs, concurrency,
                 docBatchSize, written, lastWrite>>

\* onMount, lines 19-31: a new instance, which calls loadFromStorage
pageEnter ==
  /\ ~page.mounted
  /\ page.instance < MaxVisits
  /\ page' = [mounted |-> TRUE, instance |-> page.instance + 1]
  /\ restore
  /\ UNCHANGED <<isLoadingStore, progressStore, browser, localStorage, pd, fd,
                 ss, returned, runs, concurrency, docBatchSize, written,
                 lastWrite>>

(***************************************************************************)
(* The store after construction (documentStore.ts:8-11) and its life.      *)
(***************************************************************************)
Init ==
  /\ documentsStore = <<>>
  /\ chunksStore = <<>>
  /\ isLoadingStore = FALSE
  /\ progressStore = [total |-> 0, processed |-> 0]
  /\ browser \in BOOLEAN
  /\ localStorage = EmptyStorage
  /\ pd = [inv \in Inv |-> IdleFrame]
  /\ fd = "idle"
  /\ ss = IdleSearch
  /\ returned = [inv \in Inv |-> "none"]
  /\ runs = 0
  /\ concurrency = 1
  /\ docBatchSize = batchSize
  /\ page = NoPage
  /\ written = <<>>
  /\ lastWrite = None

Next ==
  \/ \E inv \in Inv : processDocumentsStart(inv)
  \/ \E inv \in Inv : processDocumentsExtract(inv)
  \/ \E inv \in Inv : processDocumentsEmbed(inv)
  \/ \E inv \in Inv : processDocumentsPause(inv)
  \/ \E inv \in Inv : processDocumentsSaveFails(inv)
  \/ \E inv \in Inv : processDocumentsMerge(inv)
  \/ fetchDocumentsStart
  \/ fetchDocumentsOk
  \/ fetchDocumentsError
  \/ fetchDocumentsNoIssuances
  \/ loadFromStorage
  \/ clearData

Spec == Init /\ [][Next]_vars
(***************************************************************************)
(* Searches over the stores that a processDocuments run, or a restore of   *)
(* its snapshot, leaves behind.                                            *)
(***************************************************************************)
Linked == SelectSeq(Catalog, HasLink)

\* the store after one run over the linked documents, every vector returned
StoreAfterRun(oks) ==
  LET processedBatch == processMultiplePdfs(Linked, oks)
      chunksWithEmbeddings == MapSeq(allChunksOf(processedBatch), WithEmbedding)
  IN [docs |-> finalProcessedBatch(processedBatch, chunksWithEmbeddings),
      chunks |-> newChunks(chunksWithEmbeddings)]

\* the store loadFromStorage restores from that run's snapshot
StoreRestored(oks) ==
  LET storage == snapshot(EmptyStorage, StoreAfterRun(oks).docs,
                          StoreAfterRun(oks).chunks, "ok")
  IN [docs |-> MapSeq(storage.rag_documents[1], JSONparseDoc),
      chunks |-> MapSeq(storage.rag_chunks[1], JSONparseChunk)]

SearchStores ==
  {[docs |-> <<>>, chunks |-> <<>>], [docs |-> Catalog, chunks |-> <<>>]}
    \cup {StoreAfterRun(oks) : oks \in [1..Len(Linked) -> BOOLEAN]}
    \cup {StoreRestored(oks) : oks \in [1..Len(Linked) -> BOOLEAN]}

InitSearch ==
  /\ \E store \in SearchStores :
       /\ documentsStore = store.docs
       /\ chunksStore = store.chunks
       /\ localStorage \in
            {EmptyStorage, snapshot(EmptyStorage, store.docs, store.chunks, "ok")}
  /\ isLoadingStore = FALSE
  /\ progressStore = [total |-> 0, processed |-> 0]
  /\ browser = TRUE
  /\ pd = [inv \in Inv |-> IdleFrame]
  /\ fd = "idle"
  /\ ss = IdleSearch
  /\ returned = [inv \in Inv |-> "none"]
  /\ runs = 0
  /\ concurrency = 1
  /\ docBatchSize = batchSize
  /\ page = NoPage
  /\ written = <<>>
  /\ lastWrite = None

NextSearch ==
  \/ semanticSearchStart
  \/ semanticSearchResolve
  \/ semanticSearchReject
  \/ clearData
  \/ loadFromStorage

SpecSearch == InitSearch /\ [][NextSearch]_vars

(***************************************************************************)
(* Restores from whatever the two entries hold when the page starts: a     *)
(* snapshot, nothing, or a string that is not JSON.                         *)
(***************************************************************************)
Entries(valid) == {None, Some(Unparseable), valid}

Storages ==
  UNION {LET ok == snapshot(EmptyStorage, store.docs, store.chunks, "ok")
         IN {[rag_documents |-> d, rag_chunks |-> c] :
               d \in Entries(ok.rag_documents), c \in Entries(ok.rag_chunks)}
         : store \in SearchStores}

InitRestore ==
  /\ \E store \in SearchStores :
       /\ documentsStore = store.docs
       /\ chunksStore = store.chunks
  /\ browser \in BOOLEAN
  /\ localStorage \in IF browser THEN Storages ELSE {EmptyStorage}
  /\ isLoadingStore = FALSE
  /\ progressStore = [total |-> 0, processed |-> 0]
  /\ pd = [inv \in Inv |-> IdleFrame]
  /\ fd = "idle"
  /\ ss = IdleSearch
  /\ returned = [inv \in Inv |-> "none"]
  /\ runs = 0
  /\ concurrency = 1
  /\ docBatchSize = batchSize
  /\ page = NoPage
  /\ written = <<>>
  /\ lastWrite = None

NextRestore ==
  \/ loadFromStorage
  \/ clearData

SpecRestore == InitRestore /\ [][NextRestore]_vars

(***************************************************************************)
(* searchSimilarChunks on every chunk list of up to MaxChunks chunks whose *)
(* embedding is absent, empty, or one of the provider's vectors.           *)
(***************************************************************************)
MaxChunks == 3

Embeddings == {None, Some(<<>>)} \cup {Some(v) : v \in Vectors}

\* the first n chunks of document 1, each with one of the embeddings
ChunkLists ==
  LET spans == processPdf(Catalog[1], TRUE).chunks[1]
  IN UNION {{[x \in 1..n |-> [spans[x] EXCEPT !.embedding = e[x]]] :
               e \in [1..n -> Embeddings]} :
            n \in 0..Min(MaxChunks, Len(spans))}

InitSimilar ==
  /\ documentsStore = <<>>
  /\ chunksStore \in ChunkLists
  /\ browser = TRUE
  /\ localStorage = EmptyStorage
  /\ isLoadingStore = FALSE
  /\ progressStore = [total |-> 0, processed |-> 0]
  /\ pd = [inv \in Inv |-> IdleFrame]
  /\ fd = "idle"
  /\ ss = IdleSearch
  /\ returned = [inv \in Inv |-> "none"]
  /\ runs = 0
  /\ concurrency = 1
  /\ docBatchSize = batchSize
  /\ page = NoPage
  /\ written = <<>>
  /\ lastWrite = None

NextSimilar ==
  \/ semanticSearchStart
  \/ semanticSearchResolve
  \/ semanticSearchReject

SpecSimilar == InitSimilar /\ [][NextSimilar]_vars

(***************************************************************************)
(* processDocuments on the fetched catalog, with document batches of one   *)
(* document and of two.                                                    *)
(***************************************************************************)
InitBatch ==
  /\ documentsStore = Catalog
  /\ chunksStore = <<>>
  /\ isLoadingStore = FALSE
  /\ progressStore = [total |-> Len(Catalog), processed |-> 0]
  /\ browser \in BOOLEAN
  /\ localStorage = EmptyStorage
  /\ pd = [inv \in Inv |-> IdleFrame]
  /\ fd = "idle"
  /\ ss = IdleSearch
  /\ returned = [inv \in Inv |-> "none"]
  /\ runs = 0
  /\ concurrency = 1
  /\ docBatchSize \in {batchSize, batchSize + 1}
  /\ page = NoPage
  /\ written = <<>>
  /\ lastWrite = None

NextBatch ==
  \/ \E inv \in Inv : processDocumentsStart(inv)
  \/ \E inv \in Inv : processDocumentsExtract(inv)
  \/ \E inv \in Inv : processDocumentsEmbed(inv)
  \/ \E inv \in Inv : processDocumentsPause(inv)
  \/ \E inv \in Inv : processDocumentsSaveFails(inv)
  \/ \E inv \in Inv : processDocumentsMerge(inv)

SpecBatch == InitBatch /\ [][NextBatch]_vars

\* the awaited call of an invocation returns or fails: the invocation resumes
processDocumentsResume(inv) ==
  \/ processDocumentsExtract(inv)
  \/ processDocumentsEmbed(inv)
  \/ processDocumentsPause(inv)
  \/ processDocumentsSaveFails(inv)
  \/ processDocumentsMerge(inv)

\* every external call (download, provider request, timer, vector-store
\* request) eventually returns or fails, and the event loop then runs the
\* continuation that awaits it
SpecLive ==
  InitBatch /\ [][NextBatch]_vars
    /\ \A inv \in Inv : WF_vars(processDocumentsResume(inv))

(***************************************************************************)
(* The documents page over the fetched catalog: clicks on Process          *)
(* Documents and navigations away from the page and back.                  *)
(***************************************************************************)
InitPage ==
  /\ documentsStore = Catalog
  /\ chunksStore = <<>>
  /\ isLoadingStore = FALSE
  /\ progressStore = [total |-> Len(Catalog), processed |-> 0]
  /\ browser = TRUE
  /\ localStorage = EmptyStorage
  /\ pd = [inv \in Inv |-> IdleFrame]
  /\ fd = "idle"
  /\ ss = IdleSearch
  /\ returned = [inv \in Inv |-> "none"]
  /\ runs = 0
  /\ concurrency = Cardinality(Inv)
  /\ docBatchSize = batchSize
  /\ page = [mounted |-> TRUE, instance |-> 1]
  /\ written = <<>>
  /\ lastWrite = None

NextPage ==
  \/ \E inv \in Inv : handleProcessDocuments(inv)
  \/ \E inv \in Inv : processDocumentsExtract(inv)
  \/ \E inv \in Inv : processDocumentsEmbed(inv)
  \/ \E inv \in Inv : processDocumentsPause(inv)
  \/ \E inv \in Inv : processDocumentsSaveFails(inv)
  \/ \E inv \in Inv : processDocumentsMerge(inv)
  \/ pageLeave
  \/ pageEnter

SpecPage == InitPage /\ [][NextPage]_vars

(***************************************************************************)
(* Properties of semanticSearch, checked under SpecSearch.                 *)
(***************************************************************************)
Count(s, v) == Cardinality({x \in DOMAIN s : s[x] = v})

\* a result built at lines 236-243, not one of searchSimilarChunks
IsLexical(r) == r.source = None

\* C1: a finished search returns the first min(L, limit) of its L lexical
\* matches: none of them gives way to a semantic result.
C1_LexicalMatchesKept ==
  ss.pc = "done" =>
    LET lexical == lexicalResults(ss.matchingDocs)
        kept == SubSeq(lexical, 1, Min(Len(lexical), ss.limit))
    IN \A x \in DOMAIN kept : Count(ss.result, kept[x]) >= Count(kept, kept[x])

\* C2: in a finished search the results made from the circularNumber
\* matches come, in their order, before every other lexical result, so each
\* of them is ranked before each result of a title-only match.
C2_CodeMatchesBeforeTitleMatches ==
  ss.pc = "done" =>
    LET lexical == SelectSeq(ss.result, IsLexical)
        codeMatches == lexicalResults(ss.matchingDocCircularNumber)
        titleOnly(y) == ~matchesCircularNumber(lexical[y], ss.query)
    IN \A x, y \in DOMAIN lexical :
         /\ x <= Len(codeMatches) => lexical[x] = codeMatches[x]
         /\ (x <= Len(codeMatches) /\ titleOnly(y)) => x < y

\* a finished search whose result holds a circularNumber match and, after
\* it, a title-only match
C2_Witness ==
  /\ ss.pc = "done"
  /\ LET lexical == SelectSeq(ss.result, IsLexical)
     IN /\ Len(ss.matchingDocCircularNumber) >= 1
        /\ \E y \in DOMAIN lexical :
             /\ y > Len(ss.matchingDocCircularNumber)
             /\ ~matchesCircularNumber(lexical[y], ss.query)
             /\ matchesTitle(lexical[y], ss.query)

\* C10: a search with no lexical match and no chunk that can be scored ends
\* with an empty result and never with an error.
C10_NothingToFindReturnsEmpty ==
  (/\ ss.pc \in {"done", "rejected"}
   /\ ss.matchingDocs = <<>>
   /\ SelectSeq(chunksStore, hasEmbedding) = <<>>)
    => (ss.pc = "done" /\ ss.result = <<>>)

(***************************************************************************)
(* Properties of the store's life, checked under Spec.                     *)
(***************************************************************************)
\* the merge of lines 95-117 for the document batch held by frame f
mergedDocs(f) ==
  f.allProcessedDocs \o finalProcessedBatch(f.processedBatch, f.result)

\* C3: once a sub-batch of an invocation's document batch has failed, the
\* invocation still requests the sub-batches after it and then merges the
\* document batch into the store.
C3_FailedSubBatchNeverAborts ==
  [][\A inv \in Inv :
       (pd[inv].failed # {} /\ pd'[inv] # pd[inv]) =>
         /\ pd[inv].pc = "embed" => pd'[inv].pc \in {"embed", "pause", "save"}
         /\ pd[inv].pc = "pause" => pd'[inv].pc = "embed"
         /\ pd[inv].pc = "save" =>
              /\ documentsStore' = mergedDocs(pd[inv])
              /\ chunksStore' = chunksStore \o newChunks(pd[inv].result)]_vars

\* C4: when the invocation leaves a document batch in which a sub-batch has
\* failed, each chunk of a failed sub-batch is in its document's chunks
\* without an embedding and is not appended to chunksStore; each chunk of a
\* successful sub-batch is in its document's chunks with its embedding and is
\* appended to chunksStore.
C4_FailedChunksKeptUnembedded ==
  [][\A inv \in Inv :
       (pd[inv].pc = "save" /\ pd[inv].failed # {} /\ pd'[inv] # pd[inv]) =>
         LET f == pd[inv]
             appended == SubSeq(chunksStore', Len(chunksStore) + 1, Len(chunksStore'))
             owners(chunk) ==
               SelectSeq(documentsStore',
                         LAMBDA doc : doc.id = chunk.metadata.documentId)
             chunksOfOwner(chunk) ==
               IF owners(chunk) = <<>> \/ owners(chunk)[1].chunks = None THEN <<>>
               ELSE owners(chunk)[1].chunks[1]
         IN \A j \in DOMAIN f.allChunks :
              LET chunk == f.allChunks[j]
                  offset == ((j - 1) \div embedBatchSize) * embedBatchSize
              IN IF offset \in f.failed
                   THEN /\ Count(chunksOfOwner(chunk), chunk) >= 1
                        /\ Count(chunksOfOwner(chunk), WithEmbedding(chunk)) = 0
                        /\ Count(appended, WithEmbedding(chunk)) = 0
                        /\ Count(appended, chunk) = 0
                   ELSE /\ Count(chunksOfOwner(chunk), WithEmbedding(chunk)) >= 1
                        /\ Count(appended, WithEmbedding(chunk)) >= 1]_vars

\* an invocation has run to its end, and every held document has been
\* through processPdf
ProcessedCorpus ==
  /\ \E inv \in Inv : returned[inv] = "completed"
  /\ documentsStore # <<>>
  /\ \A x \in DOMAIN documentsStore : documentsStore[x].content # None

C6_SnapshotKeepsNewestChunks ==
  LET stored == existingChunks(localStorage)
      total == Len(written)
  IN /\ Len(stored) <= maxStoredChunks
     /\ Len(stored) = Min(maxStoredChunks, total)
     /\ \A j \in DOMAIN stored : stored[j] = written[total - Len(stored) + j]

\* more chunks were written than the snapshot keeps, and it is full
C6_Witness ==
  /\ Len(written) > maxStoredChunks
  /\ Len(existingChunks(localStorage)) = maxStoredChunks
  /\ existingChunks(localStorage)[1] = written[Len(written) - maxStoredChunks + 1]

\* C7: loadFromStorage after a successful snapshot write restores documents
\* with the id, title and circularNumber of the documents held at the write,
\* and chunks with the texts of the chunks written, both in order.
C7_RoundTrip ==
  [][(loadFromStorage /\ lastWrite # None) =>
       LET docs == lastWrite[1].docs
           chunks == lastWrite[1].chunks
       IN /\ Len(documentsStore') = Len(docs)
          /\ \A x \in DOMAIN docs :
               /\ documentsStore'[x].id = docs[x].id
               /\ documentsStore'[x].title = docs[x].title
               /\ documentsStore'[x].circularNumber = docs[x].circularNumber
          /\ Len(chunksStore') = Len(chunks)
          /\ \A x \in DOMAIN chunks : chunksStore'[x].text = chunks[x].text]_vars

\* the stores hold what loadFromStorage restored from the last snapshot: the
\* documents without chunk lists, the chunks without embeddings
C7_Witness ==
  /\ lastWrite # None
  /\ documentsStore # <<>>
  /\ chunksStore # <<>>
  /\ \A x \in DOMAIN documentsStore : documentsStore[x].chunks = None
  /\ \A x \in DOMAIN chunksStore : chunksStore[x].embedding = None
  /\ Len(documentsStore) = Len(lastWrite[1].docs)
  /\ Len(chunksStore) = Len(lastWrite[1].chunks)

\* C8: when the snapshot write of a document batch fails, the stores keep the
\* merged batch, the invocation goes on to the next document batch (or, after
\* the last one, completes), and it does not abort.
C8_StorageFailureSwallowed ==
  [][\A inv \in Inv :
       (browser /\ processDocumentsMerge(inv) /\ lastWrite' = None) =>
         LET f == pd[inv]
         IN /\ documentsStore' = mergedDocs(f)
            /\ chunksStore' = chunksStore \o newChunks(f.result)
            /\ IF f.i + docBatchSize < Len(f.unprocessedDocs)
                 THEN /\ pd'[inv].pc = "extract"
                      /\ pd'[inv].i = f.i + docBatchSize
                      /\ returned'[inv] = "running"
                 ELSE returned'[inv] = "completed"]_vars

\* the first document batch is merged in memory, its snapshot write failed
\* and left nothing durable, and the invocation is at its second batch
C8_Witness ==
  /\ browser
  /\ pd[1].pc = "extract"
  /\ pd[1].i > 0
  /\ documentsStore = pd[1].allProcessedDocs
  /\ chunksStore # <<>>
  /\ localStorage = EmptyStorage
  /\ lastWrite = None

\* C9: right after clearData the document list and the chunk list are empty
\* and both snapshot entries are absent, so loadFromStorage returns false.
C9_ClearEmptiesEverything ==
  [][clearData =>
       /\ documentsStore' = <<>>
       /\ chunksStore' = <<>>
       /\ localStorage'.rag_documents = None
       /\ localStorage'.rag_chunks = None
       /\ ~loadFromStorageResult(localStorage')]_vars

\* the first document batch put three chunks into the stores and the
\* snapshot; clearData has since emptied all of them
C9_Witness ==
  /\ browser
  /\ pd[1].pc = "extract"
  /\ pd[1].i > 0
  /\ Len(newChunks(allChunksOf(pd[1].allProcessedDocs))) = 3
  /\ documentsStore = <<>>
  /\ chunksStore = <<>>
  /\ localStorage = EmptyStorage

\* C11: semanticSearch asks the Embedding Provider for the query's vector
\* only when some chunk of the store holds an embedding.
C11_NoProviderCallWithoutEmbeddedChunk ==
  [][(semanticSearchStart /\ ss'.pc = "embedding") =>
       SelectSeq(chunksStore, hasEmbedding) # <<>>]_vars

Ids(docs) == {docs[x].id : x \in DOMAIN docs}

\* C12: no step of processDocuments changes the set of document ids held by
\* the store, and no id is held twice.
C12_DocumentIdsPreserved ==
  [][(pd' # pd) =>
       /\ Ids(documentsStore') = Ids(documentsStore)
       /\ Cardinality(Ids(documentsStore')) = Len(documentsStore')]_vars

Unembedded(chunk) == [chunk EXCEPT !.embedding = None]

ChunkSet(doc) ==
  IF doc.chunks = None THEN {}
  ELSE {Unembedded(doc.chunks[1][x]) : x \in DOMAIN doc.chunks[1]}

\* every chunk listed by a held document names that document
ChunksOwned ==
  \A x \in DOMAIN documentsStore :
    documentsStore[x].chunks # None =>
      \A y \in DOMAIN documentsStore[x].chunks[1] :
        documentsStore[x].chunks[1][y].metadata.documentId = documentsStore[x].id

\* the merge hands the chunks of each document of the batch back to it
ChunksGivenBack(inv) ==
  LET f == pd[inv]
  IN \A d \in DOMAIN f.processedBatch :
       LET held == documentsStore'[Len(f.allProcessedDocs) + d]
       IN /\ held.id = f.processedBatch[d].id
          /\ ChunkSet(held) = ChunkSet(f.processedBatch[d])

C14_NoPartialDocument ==
  \A x \in DOMAIN documentsStore :
    \/ documentsStore[x].content = None /\ documentsStore[x].chunks = None
    \/ documentsStore[x].content # None /\ documentsStore[x].chunks # None

\* C15: loadFromStorage returns true exactly when it has put the stored
\* documents or chunks into memory; when it returns false the documents and
\* the chunks in memory are as they were.
C15_LoadResultTellsWhatChanged ==
  [][loadFromStorage =>
       /\ loadFromStorageResult(localStorage) <=>
            (loadsDocs(localStorage) \/ loadsChunks(localStorage))
       /\ ~loadFromStorageResult(localStorage) =>
            UNCHANGED <<documentsStore, chunksStore>>]_vars

\* the stores as loadFromStorage leaves them after a processed corpus was
\* snapshotted: documents with their text, chunks without embeddings
RestoredCorpus ==
  /\ documentsStore # <<>>
  /\ \A x \in DOMAIN documentsStore :
       Truthy(documentsStore[x].content) /\ documentsStore[x].chunks = None
  /\ chunksStore # <<>>
  /\ SelectSeq(chunksStore, hasEmbedding) = <<>>

\* C16: a processDocuments call made on a restored corpus does not return
\* before the chunks of the store hold embeddings again.
C16_EmbeddingsRecomputedAfterRestore ==
  [][\A inv \in Inv :
       (/\ RestoredCorpus
        /\ processDocumentsStart(inv)
        /\ returned'[inv] = "noop")
         => SelectSeq(chunksStore', hasEmbedding) # <<>>]_vars

\* C17: generateEmbeddings sends the request of a sub-batch only after a
\* pause that follows the end of the request before it (one request is in
\* flight at a time: each is awaited before the loop goes on).
C17_PauseBetweenSubBatches ==
  [][\A inv \in Inv :
       (pd[inv].pc = "embed" /\ pd'[inv] # pd[inv]) => pd'[inv].pc # "embed"]_vars

\* C18: while an invocation is under way, 0 <= processed <= total, processed
\* does not decrease, it changes only in the step that merges a document
\* batch, by the size of that batch, and an invocation that completes leaves
\* processed = total.
C18_ProgressCounter ==
  [][\A inv \in Inv :
       pd[inv].pc # "idle" =>
         /\ 0 <= progressStore'.processed
         /\ progressStore'.processed <= progressStore'.total
         /\ progressStore'.processed >= progressStore.processed
         /\ progressStore'.processed # progressStore.processed =>
              /\ processDocumentsMerge(inv)
              /\ progressStore'.processed =
                   progressStore.processed + Len(docBatch(pd[inv]))
         /\ (returned'[inv] = "completed" /\ returned[inv] = "running") =>
              progressStore'.processed = progressStore'.total]_vars

\* C19: every result of a finished search has its source and its text
\* defined (documentId, circularNumber, title and score always are).
C19_ResultsWellFormed ==
  ss.pc = "done" =>
    \A x \in DOMAIN ss.result :
      ss.result[x].source # None /\ ss.result[x].text # None

\* a may be ranked before b: its score is greater, or equal with a first;
\* nothing is asked of a pair in which a score is NaN
RankedBefore(scores, a, b) ==
  \/ scores[a].nan \/ scores[b].nan
  \/ FCmp(scores[a], scores[b]) > 0
  \/ FCmp(scores[a], scores[b]) = 0 /\ a < b

\* C20: searchSimilarChunks returns min(limit, embedded chunks) results, all
\* of embedded chunks, by non-increasing score with equal scores in chunk
\* order, and no chunk left out outranks one that is returned.
C20_TopChunksByScore ==
  ss.pc = "done" =>
    LET embedded == SelectSeq(chunksStore, hasEmbedding)
        scores == [x \in DOMAIN embedded |->
                     CosineTable[ss.queryEmbedding, embedded[x].embedding[1]]]
        res == ss.searchResults
    IN /\ Len(res) = Min(ss.limit, Len(embedded))
       /\ \E pos \in [DOMAIN res -> DOMAIN embedded] :
            /\ \A k \in DOMAIN res :
                 /\ res[k].text = Some(embedded[pos[k]].text)
                 /\ res[k].score = scores[pos[k]]
            /\ \A k, l \in DOMAIN res :
                 k < l => RankedBefore(scores, pos[k], pos[l])
            /\ \A k \in DOMAIN res :
                 \A j \in DOMAIN embedded \ {pos[l] : l \in DOMAIN res} :
                   RankedBefore(scores, pos[k], j)

(***************************************************************************)
(* Properties of a document batch, checked under SpecBatch.                *)
(***************************************************************************)
\* what processPdf returns for a document whose download or extraction failed
extractionFailed(doc) == doc.content = Some("") /\ doc.chunks = Some(<<>>)

\* the held document with the id of doc, as a sequence of zero or one
heldAs(docs, doc) == SelectSeq(docs, LAMBDA held : held.id = doc.id)

\* the step leaves the batch of frame f merged: a failed document is held
\* without text and is unprocessed again, every other document is held with
\* its text and its chunks, and its embedded chunks are in chunksStore
batchMerged(f) ==
  \A d \in DOMAIN f.processedBatch :
    LET doc == f.processedBatch[d]
        held == heldAs(documentsStore', doc)
    IN /\ Len(held) = 1
       /\ IF extractionFailed(doc)
            THEN /\ ~Truthy(held[1].content)
                 /\ Len(heldAs(unprocessedDocs(documentsStore'), doc)) = 1
            ELSE /\ held[1].content = Some(PdfText(doc.downloadLink))
                 /\ ChunkSet(held[1]) = ChunkSet(doc)
                 /\ \A y \in DOMAIN held[1].chunks[1] :
                      held[1].chunks[1][y].embedding # None =>
                        Count(chunksStore', held[1].chunks[1][y]) >= 1

\* C21: when extraction fails for a document of a batch, the other documents
\* of the batch are extracted and go on to the embedding step; the step that
\* ends the batch leaves them merged into the store and the failed document
\* held without text; and a later invocation takes the failed document up.
C21_FailedExtractionSkipsOnlyItsDocument ==
  [][\A inv \in Inv :
       LET f == pd[inv]
           someFailed ==
             \E d \in DOMAIN f.processedBatch : extractionFailed(f.processedBatch[d])
       IN /\ processDocumentsExtract(inv) =>
               \A d \in DOMAIN docBatch(f) :
                 LET doc == pd'[inv].processedBatch[d]
                 IN \/ extractionFailed(doc)
                    \/ /\ doc = processPdf(docBatch(f)[d], TRUE)
                       /\ \A y \in DOMAIN doc.chunks[1] :
                            Count(pd'[inv].allChunks, doc.chunks[1][y]) >= 1
          /\ (f.pc = "save" /\ someFailed /\ pd'[inv] # f) => batchMerged(f)
          /\ processDocumentsStart(inv) =>
               \A x \in DOMAIN documentsStore :
                 (extractionFailed(documentsStore[x]) /\ HasLink(documentsStore[x]))
                   => Count(pd'[inv].unprocessedDocs, documentsStore[x]) = 1]_vars

(***************************************************************************)
(* Properties of the documents page, checked under SpecPage.               *)
(***************************************************************************)
InFlight == {inv \in Inv : pd[inv].pc # "idle"}

\* C22: driven through the Process Documents button, at most one
\* processDocuments invocation is in flight at any time, whatever the clicks
\* and the navigations away from the page and back.
C22_OneInvocationInFlight == Cardinality(InFlight) <= 1

(***************************************************************************)
(* Further properties of the store's life, checked under Spec.             *)
(***************************************************************************)
\* C23: every chunk of chunksStore carries the id of a document that
\* documentsStore holds.
C23_ChunksHaveTheirDocument ==
  \A x \in DOMAIN chunksStore :
    chunksStore[x].metadata.documentId \in Ids(documentsStore)

(***************************************************************************)
(* Further properties of semanticSearch, checked under SpecSearch.         *)
(***************************************************************************)
\* C24: among the results of a finished search that were made from lexical
\* matches, each document appears at most once, also a document that matches
\* on its title and on its circularNumber.
C24_LexicalMatchOnce ==
  ss.pc = "done" =>
    \A x, y \in DOMAIN ss.result :
      (/\ IsLexical(ss.result[x]) /\ IsLexical(ss.result[y])
       /\ ss.result[x].documentId = ss.result[y].documentId) => x = y

\* the words of a string that are not empty
words(s) == SelectSeq(split(toLowerCase(s)), LAMBDA word : word # <<>>)

\* some non-empty word of the query is a whole word of the title or of the
\* circularNumber, case-insensitively
matchesWord(doc, query) ==
  \E w \in DOMAIN words(query) :
    \/ includes(split(toLowerCase(doc.title)), words(query)[w])
    \/ includes(split(toLowerCase(doc.circularNumber)), words(query)[w])

\* C28: every lexical match of a search matches on a non-empty query word:
\* an empty word of the query makes no document match.
C28_EmptyWordMatchesNothing ==
  ss.pc \in {"embedding", "done"} =>
    \A x \in DOMAIN ss.matchingDocs : matchesWord(ss.matchingDocs[x], ss.query)

(***************************************************************************)
(* Properties of the embedding and saving steps, checked under SpecBatch.  *)
(***************************************************************************)
\* C25: when generateEmbeddings has returned, its result has one entry for
\* each input chunk, in the order of the input, with the chunk's text and
\* metadata, whatever requests failed or were answered with too few vectors.
C25_OneEntryPerChunk ==
  \A inv \in Inv :
    pd[inv].pc = "save" =>
      /\ Len(pd[inv].result) = Len(pd[inv].allChunks)
      /\ \A x \in DOMAIN pd[inv].allChunks :
           /\ pd[inv].result[x].text = pd[inv].allChunks[x].text
           /\ pd[inv].result[x].metadata = pd[inv].allChunks[x].metadata

\* C27: when the request of saveEmbeddingsToChroma for a document batch
\* with embedded chunks fails, the batch is merged into documentsStore and chunksStore all the
\* same, and the invocation goes on with the next document batch.
C27_SaveFailureKeepsBatch ==
  [][\A inv \in Inv :
       (processDocumentsSaveFails(inv) /\ newChunks(pd[inv].result) # <<>>) =>
         LET f == pd[inv]
         IN /\ documentsStore' = mergedDocs(f)
            /\ chunksStore' = chunksStore \o newChunks(f.result)
            /\ f.i + docBatchSize < Len(f.unprocessedDocs) =>
                 (pd'[inv].pc = "extract" /\ pd'[inv].i = f.i + docBatchSize)
            /\ returned'[inv] # "aborted"]_vars

(***************************************************************************)
(* Properties of overlapping operations and of fetchDocuments, checked     *)
(* under Spec.                                                             *)
(***************************************************************************)
\* the store as clearData leaves it
StoreEmpty ==
  /\ documentsStore = <<>>
  /\ chunksStore = <<>>
  /\ localStorage = EmptyStorage

\* C26: when the store has been emptied while an invocation is in flight
\* (clearData was called during its last document batch), the store is
\* empty after the step in which that invocation completes.
C26_ClearedStoreStaysEmpty ==
  [][\A inv \in Inv :
       (/\ pd[inv].pc # "idle"
        /\ StoreEmpty
        /\ pd'[inv].pc = "idle") => StoreEmpty']_vars

\* C29: a fetchDocuments call that fails (the request is rejected, the
\* response is not OK, or its body has no issuances list) leaves the document
\* list and the progress counter as they were, returns without an error and
\* leaves isLoading false.
C29_FailedFetchChangesNothing ==
  [][(fetchDocumentsError \/ fetchDocumentsNoIssuances) =>
       /\ documentsStore' = documentsStore
       /\ progressStore' = progressStore
       /\ fd' = "idle"
       /\ isLoadingStore' = FALSE]_vars

(***************************************************************************)
(* Termination of processDocuments, checked under SpecLive.                *)
(***************************************************************************)
\* how a call of processDocuments ends when its promise resolves
Resolved == {"noop", "completed", "aborted"}

\* C30: every processDocuments invocation comes to its end, whichever
\* extraction, provider request, vector-store request or snapshot write
\* fails; the step that ends it, and the call that finds nothing to do,
\* return to the caller without an error and leave isLoading false.
C30_InvocationTerminates ==
  /\ \A inv \in Inv : [](pd[inv].pc # "idle" => <>(pd[inv].pc = "idle"))
  /\ [][\A inv \in Inv :
          (pd'[inv] # pd[inv] /\ pd'[inv].pc = "idle") =>
            (returned'[inv] \in Resolved /\ isLoadingStore' = FALSE)]_vars

\* processDocuments has been called twice and has merged a batch; its last
\* call ended on a rejected vector-store request, and isLoading is false
C30_Witness ==
  /\ runs = MaxRuns
  /\ pd[1].pc = "idle"
  /\ returned[1] = "aborted"
  /\ documentsStore # Catalog
  /\ isLoadingStore = FALSE
====
